---------------------------- MODULE Spec2Model ----------------------------
(***************************************************************************)
(* Model of app.py: extraction of order / registration / deletion events   *)
(* from HAR documents (process_har_file), their consolidation              *)
(* (process_all_files) and the upload / export handlers that share the     *)
(* process-wide slot PROCESSED_DATA.                                        *)
(*                                                                         *)
(* Text is modelled as a sequence of tokens; a token stands for one        *)
(* character ("R", "$", "5", " ") or an opaque run of letters              *)
(* ("Hamburguer").  Money is counted in centavos.  Instants are counted in *)
(* ticks, TicksPerSec ticks to the second.                                 *)
(***************************************************************************)
EXTENDS Integers, Sequences, FiniteSets, TLC

\* ------------------------------------------------------------------------
\* Bounds of the model
\* ------------------------------------------------------------------------
MaxEntries == 3

MaxBatchEntries == 3

TicksPerSec == 2

\* ------------------------------------------------------------------------
\* Generic helpers on sequences
\* ------------------------------------------------------------------------
Range(s) == { s[i] : i \in 1..Len(s) }

RECURSIVE SeqsUpTo(_, _)
SeqsUpTo(S, n) ==
  IF n = 0 THEN { <<>> }
  ELSE LET shorter == SeqsUpTo(S, n - 1)
       IN  shorter \cup { Append(s, x) : s \in { t \in shorter : Len(t) = n - 1 }, x \in S }

RECURSIVE SumSeq(_)
SumSeq(s) == IF s = <<>> THEN 0 ELSE Head(s) + SumSeq(Tail(s))

\* Optional values: <<>> is an absent key, <<v>> a present one.
Absent == <<>>

Some(v) == <<v>>

Has(o) == Len(o) > 0

Val(o) == o[1]

\* ------------------------------------------------------------------------
\* Text primitives (str methods and urllib.parse.unquote_plus)
\* ------------------------------------------------------------------------
Digits == { "0", "1", "2", "3", "4", "5", "6", "7", "8", "9" }

DigitVal(t) ==
  CASE t = "0" -> 0 [] t = "1" -> 1 [] t = "2" -> 2 [] t = "3" -> 3 [] t = "4" -> 4
    [] t = "5" -> 5 [] t = "6" -> 6 [] t = "7" -> 7 [] t = "8" -> 8 [] t = "9" -> 9

\* str.isdigit(): non-empty and made of decimal digits only.
IsDigit(s) == Len(s) > 0 /\ \A i \in 1..Len(s) : s[i] \in Digits

RECURSIVE IntOf(_)
IntOf(s) == IF s = <<>> THEN 0 ELSE 10 * IntOf(SubSeq(s, 1, Len(s) - 1)) + DigitVal(s[Len(s)])

UnquoteTok(t) ==
  CASE t = "+"   -> " "
    [] t = "%20" -> " "
    [] t = "%24" -> "$"
    [] t = "%2C" -> ","
    [] OTHER     -> t

unquote_plus(s) == [ i \in 1..Len(s) |-> UnquoteTok(s[i]) ]

RECURSIVE LStrip(_)
LStrip(s) == IF s # <<>> /\ Head(s) = " " THEN LStrip(Tail(s)) ELSE s

RECURSIVE RStrip(_)
RStrip(s) == IF s # <<>> /\ s[Len(s)] = " " THEN RStrip(SubSeq(s, 1, Len(s) - 1)) ELSE s

Strip(s) == RStrip(LStrip(s))

\* s.replace(a, b) for one-character a; b = "" deletes.
RECURSIVE Replace(_, _, _)
Replace(s, a, b) ==
  IF s = <<>> THEN <<>>
  ELSE (IF Head(s) = a THEN (IF b = "" THEN <<>> ELSE <<b>>) ELSE <<Head(s)>>)
       \o Replace(Tail(s), a, b)

\* Positions where the two-character marker "R$" starts.
MarkerAt(s) == { i \in 1..(Len(s) - 1) : s[i] = "R" /\ s[i + 1] = "$" }

HasMarker(s) == MarkerAt(s) # {}

FirstMarker(s) == CHOOSE i \in MarkerAt(s) : \A j \in MarkerAt(s) : i <= j

\* s.split("R$")[0] and s.split("R$")[1], for s holding the marker.
SplitPart0(s) == SubSeq(s, 1, FirstMarker(s) - 1)

SplitPart1(s) ==
  LET rest == SubSeq(s, FirstMarker(s) + 2, Len(s))
  IN  IF HasMarker(rest) THEN SubSeq(rest, 1, FirstMarker(rest) - 1) ELSE rest

\* float(s) on text made of digits and dots: it succeeds when s holds at
\* least one digit, nothing but digits and ".", and at most one ".".
FloatOk(s) ==
  /\ \A i \in 1..Len(s) : s[i] \in Digits \cup { "." }
  /\ \E i \in 1..Len(s) : s[i] \in Digits
  /\ Cardinality({ i \in 1..Len(s) : s[i] = "." }) <= 1

\* Its value in centavos (the texts of the model carry at most two decimals).
FloatCents(s) ==
  LET dots == { i \in 1..Len(s) : s[i] = "." }
      dot  == IF dots = {} THEN Len(s) + 1 ELSE CHOOSE i \in dots : TRUE
      int  == SubSeq(s, 1, dot - 1)
      frac == SubSeq(s, dot + 1, Len(s))
      f2   == SubSeq(frac \o <<"0", "0">>, 1, 2)
  IN  100 * IntOf(int) + IntOf(f2)

\* ------------------------------------------------------------------------
\* parse_nomeprod
\* ------------------------------------------------------------------------
PriceText(produto_dec) ==
  Replace(Replace(Replace(SplitPart1(produto_dec), ".", ""), ",", "."), " ", "")

parse_nomeprod_zero(produto_str) ==
  LET produto_dec == unquote_plus(produto_str)
  IN  IF HasMarker(produto_dec)
      THEN [ nome |-> Strip(SplitPart0(produto_dec)), valor_unit |-> 0 ]
      ELSE [ nome |-> Strip(produto_dec), valor_unit |-> 0 ]

parse_nomeprod(produto_str) ==
  LET produto_dec == unquote_plus(produto_str)
  IN  IF HasMarker(produto_dec)
      THEN IF FloatOk(PriceText(produto_dec))
           THEN [ nome |-> Strip(SplitPart0(produto_dec)),
                  valor_unit |-> FloatCents(PriceText(produto_dec)) ]
           ELSE [ nome |-> produto_str, valor_unit |-> 0 ]
      ELSE [ nome |-> Strip(produto_dec), valor_unit |-> 0 ]


\* ------------------------------------------------------------------------
\* URLs and the three patterns
\*
\* A URL is  path ? key=val & key=val ...  : [path, query], query a sequence
\* of [key, val] with val a token sequence holding no "&".
\* ------------------------------------------------------------------------
Param(k, v) == [ key |-> k, val |-> v ]

Url(p, q) == [ path |-> p, query |-> q ]

\* The leading run of digits of a text (what \d+ captures from its start).
RECURSIVE DigitPrefix(_)
DigitPrefix(s) ==
  IF s # <<>> /\ Head(s) \in Digits THEN <<Head(s)>> \o DigitPrefix(Tail(s)) ELSE <<>>

\* regex_url = nomeprod=(?P<produto>.+?)&.*mesa=(?P<mesa>[^&]+).*quant=(?P<quant>\d+)
\* The indices (i, j, k) of a nomeprod, a later mesa and a later quant
\* parameter at which the pattern can match.
UrlMatchAt(q) ==
  { t \in (1..Len(q)) \X (1..Len(q)) \X (1..Len(q)) :
      /\ t[1] < t[2] /\ t[2] < t[3]
      /\ q[t[1]].key = "nomeprod" /\ Len(q[t[1]].val) > 0
      /\ q[t[2]].key = "mesa" /\ Len(q[t[2]].val) > 0
      /\ q[t[3]].key = "quant" /\ DigitPrefix(q[t[3]].val) # <<>> }

regex_url_matches(url) == UrlMatchAt(url.query) # {}

\* search() takes the leftmost nomeprod; each greedy .* then takes the
\* last mesa and the last quant that still let the pattern match.
regex_url_search(url) ==
  LET q  == url.query
      M  == UrlMatchAt(q)
      i  == CHOOSE a \in { t[1] : t \in M } : \A t \in M : a <= t[1]
      Mi == { t \in M : t[1] = i }
      j  == CHOOSE b \in { t[2] : t \in Mi } : \A t \in Mi : b >= t[2]
      Mj == { t \in Mi : t[2] = j }
      k  == CHOOSE c \in { t[3] : t \in Mj } : \A t \in Mj : c >= t[3]
  IN  [ produto |-> q[i].val, mesa |-> q[j].val, quant |-> DigitPrefix(q[k].val) ]

\* Paths of the model in which a given literal occurs.
PathHasConnect(p) == p \in { "/connect.php", "/inc/del_produtos.php/connect.php" }

PathHasDel(p) == p \in { "/inc/del_produtos.php", "/inc/del_produtos.php/connect.php" }

\* regex_cadastro_mesa = /connect\.php\?mesa=(?P<mesa>[^&]+)&id=
regex_cadastro_matches(url) ==
  /\ PathHasConnect(url.path)
  /\ Len(url.query) >= 2
  /\ url.query[1].key = "mesa" /\ Len(url.query[1].val) > 0
  /\ url.query[2].key = "id"

regex_cadastro_mesa(url) == url.query[1].val

\* regex_deletado = delete=(?P<delete_id>\d+), searched in the request body
DeleteAt(post) == { i \in 1..Len(post) : post[i].key = "delete" /\ DigitPrefix(post[i].val) # <<>> }

regex_deletado_matches(post) == DeleteAt(post) # {}

regex_deletado_id(post) ==
  DigitPrefix(post[CHOOSE i \in DeleteAt(post) : \A j \in DeleteAt(post) : i <= j].val)

\* "mesa=" in referer, and re.search(r"mesa=([^&]+)", referer)
RefererHasMesa(ref) == \E i \in 1..Len(ref.query) : ref.query[i].key = "mesa"

RefererMesaAt(ref) == { i \in 1..Len(ref.query) : ref.query[i].key = "mesa" /\ Len(ref.query[i].val) > 0 }

RefererMesa(ref) ==
  ref.query[CHOOSE i \in RefererMesaAt(ref) : \A j \in RefererMesaAt(ref) : i <= j].val

\* ------------------------------------------------------------------------
\* One HAR entry
\*
\* entry = [request, response, startedDateTime], every key optional:
\*   request  = [url, method, headers, postData]   (postData: its "text")
\*   response = [status, content]                  (content: its "text")
\* startedDateTime is [kind, ticks]: kind "iso" is an ISO-8601 text naming
\* the UTC instant `ticks`, "junk" a text that is no date, "empty" is "".
\* ------------------------------------------------------------------------
EmptyText == [ kind |-> "empty", ticks |-> 0 ]

\* dict.get(key, default)
Get(o, default) == IF Has(o) THEN Val(o) ELSE default

\* The keys read with [] : a KeyError when one is absent.
RaisesKeyError(entry) ==
  \/ ~Has(entry.request)
  \/ ~Has(Val(entry.request).url)
  \/ ~Has(entry.response)
  \/ ~Has(Val(entry.response).status)

\* datetime.fromisoformat(started.replace("Z", "+00:00")), the raw text kept
\* when it raises, "" when the text is empty.
Horario(started_date_time) ==
  IF started_date_time.kind = "iso"
  THEN [ kind |-> "datetime", ticks |-> started_date_time.ticks ]
  ELSE started_date_time

\* {h["name"].lower(): h["value"] for h in headers}: the last header of a
\* name wins.  Header names of the model: "Referer", "referer", "Accept".
LowerName(n) == IF n = "Referer" THEN "referer" ELSE n

HeaderAt(hs, name) == { i \in 1..Len(hs) : LowerName(hs[i].name) = name }

HasHeader(hs, name) == HeaderAt(hs, name) # {}

HeaderValue(hs, name) ==
  hs[CHOOSE i \in HeaderAt(hs, name) : \A j \in HeaderAt(hs, name) : i >= j].value

NoEvents == [ lanc |-> <<>>, cad |-> <<>>, del |-> <<>> ]

\* Lines 73-95: the order branch.
Lancamento(entry, file_name) ==
  LET url   == Val(Val(entry.request).url)
      m     == regex_url_search(url)
      quant == IntOf(m.quant)
      p     == parse_nomeprod(m.produto)
      response_body == Get(Val(entry.response).content, <<>>)
  IN  [ request |-> url, response |-> Val(Val(entry.response).status),
        produto |-> p.nome, Qtde |-> quant,
        horario |-> Horario(Get(entry.startedDateTime, EmptyText)),
        valor_unitario |-> p.valor_unit, valor_total |-> quant * p.valor_unit,
        mesa |-> m.mesa, arquivo_origem |-> file_name,
        lancamento_id |-> IF response_body # <<>> /\ IsDigit(Strip(response_body))
                          THEN Some(Strip(response_body)) ELSE Absent ]

\* Lines 97-106: the registration branch.
Cadastro(entry, file_name) ==
  LET url == Val(Val(entry.request).url)
  IN  [ mesa |-> Strip(unquote_plus(regex_cadastro_mesa(url))),
        horario_cadastro |-> Horario(Get(entry.startedDateTime, EmptyText)),
        request |-> url, response |-> Val(Val(entry.response).status),
        arquivo_origem |-> file_name ]

\* Lines 108-122: the deletion branch.
Deletado(entry, file_name) ==
  LET url     == Val(Val(entry.request).url)
      headers == Get(Val(entry.request).headers, <<>>)
      post    == Get(Val(entry.request).postData, <<>>)
      mesa    == IF /\ HasHeader(headers, "referer")
                    /\ RefererHasMesa(HeaderValue(headers, "referer"))
                    /\ RefererMesaAt(HeaderValue(headers, "referer")) # {}
                 THEN unquote_plus(RefererMesa(HeaderValue(headers, "referer")))
                 ELSE <<>>
  IN  [ delete_id |-> regex_deletado_id(post), mesa_del_ref |-> mesa,
        horario |-> Horario(Get(entry.startedDateTime, EmptyText)),
        status |-> Val(Val(entry.response).status), request |-> url,
        arquivo_origem |-> file_name ]

\* Method names of the model and str.upper().
UpperMethod(m) == IF m \in { "post", "Post" } THEN "POST" ELSE m

\* One iteration of the loop of process_har_file (lines 56-124): what the
\* entry appends to the three lists.
ProcessEntryNoShortCircuit(entry, file_name) ==
  IF RaisesKeyError(entry) THEN NoEvents
  ELSE
    LET url    == Val(Val(entry.request).url)
        method == Get(Val(entry.request).method, "")
        status == Val(Val(entry.response).status)
        post   == Get(Val(entry.request).postData, <<>>)
    IN  [ lanc |-> IF regex_url_matches(url) THEN << Lancamento(entry, file_name) >> ELSE <<>>,
          cad  |-> IF regex_cadastro_matches(url) /\ status = 200
                   THEN << Cadastro(entry, file_name) >> ELSE <<>>,
          del  |-> IF PathHasDel(url.path) /\ UpperMethod(method) = "POST"
                      /\ regex_deletado_matches(post)
                   THEN << Deletado(entry, file_name) >> ELSE <<>> ]

ProcessEntry(entry, file_name) ==
  IF RaisesKeyError(entry) THEN NoEvents
  ELSE
    LET url    == Val(Val(entry.request).url)
        method == Get(Val(entry.request).method, "")
        status == Val(Val(entry.response).status)
        post   == Get(Val(entry.request).postData, <<>>)
    IN  IF regex_url_matches(url)
        THEN [ NoEvents EXCEPT !.lanc = << Lancamento(entry, file_name) >> ]
        ELSE IF regex_cadastro_matches(url) /\ status = 200
        THEN [ NoEvents EXCEPT !.cad = << Cadastro(entry, file_name) >> ]
        ELSE IF PathHasDel(url.path) /\ UpperMethod(method) = "POST"
                /\ regex_deletado_matches(post)
        THEN [ NoEvents EXCEPT !.del = << Deletado(entry, file_name) >> ]
        ELSE NoEvents


\* ------------------------------------------------------------------------
\* process_har_file as a function of the document
\*
\* A document is [json_ok, has_log, entries]: json_ok = json.loads accepts
\* the text, has_log = the parsed value holds log.entries.
\* ------------------------------------------------------------------------
Document(es) == [ json_ok |-> TRUE, has_log |-> TRUE, entries |-> es ]

NotJson == [ json_ok |-> FALSE, has_log |-> FALSE, entries |-> <<>> ]

NoLogKey == [ json_ok |-> TRUE, has_log |-> FALSE, entries |-> <<>> ]

RECURSIVE ExtractEntries(_, _)
ExtractEntries(entries, file_name) ==
  IF entries = <<>> THEN NoEvents
  ELSE LET r    == ProcessEntry(Head(entries), file_name)
           rest == ExtractEntries(Tail(entries), file_name)
       IN  [ lanc |-> r.lanc \o rest.lanc, cad |-> r.cad \o rest.cad, del |-> r.del \o rest.del ]

\* raised: har_data["log"]["entries"] raises out of the function (line 56).
process_har_file(file_content, file_name) ==
  IF ~file_content.json_ok THEN [ raised |-> FALSE, events |-> NoEvents ]
  ELSE IF ~file_content.has_log THEN [ raised |-> TRUE, events |-> NoEvents ]
  ELSE [ raised |-> FALSE, events |-> ExtractEntries(file_content.entries, file_name) ]

\* ------------------------------------------------------------------------
\* process_all_files: normalisation and consolidation (lines 160-257)
\* ------------------------------------------------------------------------
\* FUSO_BRASILIA = 'America/Sao_Paulo': three hours behind UTC.
BrasiliaOffsetSec == -10800

CommissionPct == 6

TaxaPct == 4

NaT == [ nat |-> TRUE, ticks |-> 0 ]

\* pd.to_datetime(column, errors="coerce", utc=True): the instant of a
\* datetime, NaT for every text that is no date (the raw text process_har_file
\* kept, or "").
to_datetime(horario) ==
  IF horario.kind = "datetime" THEN [ nat |-> FALSE, ticks |-> horario.ticks ] ELSE NaT

\* .dt.tz_convert(FUSO_BRASILIA).dt.tz_localize(None): the civil time.
tz_convert_naive(t) ==
  IF t.nat THEN NaT ELSE [ nat |-> FALSE, ticks |-> t.ticks + BrasiliaOffsetSec * TicksPerSec ]

\* .dt.floor("s")
floor_s(t) ==
  IF t.nat THEN NaT ELSE [ nat |-> FALSE, ticks |-> (t.ticks \div TicksPerSec) * TicksPerSec ]

horario_norm_wholeticks(horario) == tz_convert_naive(to_datetime(horario))

\* Lines 177-181: df["horario_norm"]
horario_norm(horario) == floor_s(tz_convert_naive(to_datetime(horario)))

\* subset=["mesa", "produto", "Qtde", "request", "horario_norm"]
DedupKey(row) == << row.mesa, row.produto, row.Qtde, row.request, horario_norm(row.horario) >>

\* DataFrame.drop_duplicates(subset=...): the first row of every key, in order.
RECURSIVE drop_duplicates_lanc(_, _)
drop_duplicates_lanc(rows, kept) ==
  IF rows = <<>> THEN kept
  ELSE IF \E i \in 1..Len(kept) : DedupKey(kept[i]) = DedupKey(Head(rows))
       THEN drop_duplicates_lanc(Tail(rows), kept)
       ELSE drop_duplicates_lanc(Tail(rows), Append(kept, Head(rows)))

\* Lines 182-186: the order frame after deduplication, with its added columns.
LancRow(ev, n) ==
  [ No |-> n, request |-> ev.request, response |-> ev.response, produto |-> ev.produto,
    Qtde |-> ev.Qtde, horario |-> to_datetime(ev.horario), deletar |-> "",
    valor_unitario |-> ev.valor_unitario, valor_total |-> ev.Qtde * ev.valor_unitario,
    mesa |-> ev.mesa, arquivo_origem |-> ev.arquivo_origem, lancamento_id |-> ev.lancamento_id ]

LancFrame(todos) ==
  LET kept == drop_duplicates_lanc(todos, <<>>)
  IN  [ n \in 1..Len(kept) |-> LancRow(kept[n], n) ]

\* Lines 198-199: the registration instant as civil time.
CadRow(ev) ==
  [ mesa |-> ev.mesa, horario_cadastro |-> tz_convert_naive(to_datetime(ev.horario_cadastro)),
    request |-> ev.request, response |-> ev.response, arquivo_origem |-> ev.arquivo_origem ]

\* sort_values(by="horario_cadastro"): ascending, NaT last, ties in their
\* original order.
TimeBefore(a, b) == ~a.nat /\ (b.nat \/ a.ticks < b.ticks)

RECURSIVE InsertSorted(_, _)
InsertSorted(sorted, row) ==
  IF sorted = <<>> THEN << row >>
  ELSE IF TimeBefore(row.horario_cadastro, Head(sorted).horario_cadastro)
       THEN << row >> \o sorted
       ELSE << Head(sorted) >> \o InsertSorted(Tail(sorted), row)

RECURSIVE sort_values_cad(_)
sort_values_cad(rows) ==
  IF rows = <<>> THEN <<>>
  ELSE InsertSorted(sort_values_cad(SubSeq(rows, 1, Len(rows) - 1)), rows[Len(rows)])

\* drop_duplicates(subset=["mesa"], keep="first")
RECURSIVE drop_duplicates_cad(_, _)
drop_duplicates_cad(rows, kept) ==
  IF rows = <<>> THEN kept
  ELSE IF \E i \in 1..Len(kept) : kept[i].mesa = Head(rows).mesa
       THEN drop_duplicates_cad(Tail(rows), kept)
       ELSE drop_duplicates_cad(Tail(rows), Append(kept, Head(rows)))

CadFrameUnsorted(todas) == drop_duplicates_cad([ n \in 1..Len(todas) |-> CadRow(todas[n]) ], <<>>)

\* Line 200.
CadFrame(todas) ==
  drop_duplicates_cad(sort_values_cad([ n \in 1..Len(todas) |-> CadRow(todas[n]) ]), <<>>)

\* Lines 219-227: the GERAL row.  total_valor is in centavos, comissao and
\* taxa in hundredths of a centavo (total_valor * 0.06 = total_valor * 6 / 100).
RECURSIVE SumValorTotal(_)
SumValorTotal(df) == IF df = <<>> THEN 0 ELSE Head(df).valor_total + SumValorTotal(Tail(df))

ComissaoPlusOffset(total_valor) == total_valor * CommissionPct + 14000 * 100

Comissao(total_valor) == total_valor * CommissionPct

Taxa(total_valor) == total_valor * TaxaPct

RECURSIVE SumExtracted(_)
SumExtracted(todos) == IF todos = <<>> THEN 0 ELSE Head(todos).valor_total + SumExtracted(Tail(todos))

TotalValorBeforeDedup(todos, df) == SumExtracted(todos)

\* Line 219: df["valor total"].sum(), df the frame after lines 176-186.
TotalValor(todos, df) == SumValorTotal(df)

Geral(total_valor) ==
  [ total_valor |-> total_valor, comissao |-> Comissao(total_valor), taxa |-> Taxa(total_valor) ]

\* Lines 237-240 (and 358-361): the ranking.
\* Order of the table names under str comparison.
MesaOrd(mesa) ==
  CASE mesa = << "Mesa01" >> -> 1
    [] mesa = << "Mesa02" >> -> 2
    [] mesa = << "Mesa03" >> -> 3
    [] OTHER -> 4

\* groupby("mesa")["valor total"].sum().reset_index(): one row per table,
\* in the order of the table names, labelled 0, 1, 2, ...
MesasOf(df) == { df[i].mesa : i \in 1..Len(df) }

MesaTotal(df, mesa) ==
  SumValorTotal(SelectSeq(df, LAMBDA r : r.mesa = mesa))

GroupIndex(df, mesa) == Cardinality({ m \in MesasOf(df) : MesaOrd(m) < MesaOrd(mesa) })

\* sort_values(by="valor total", ascending=False): the place of a table's
\* row, ties in group order.
SortedPlace(df, mesa) ==
  1 + Cardinality({ m \in MesasOf(df) :
        \/ MesaTotal(df, m) > MesaTotal(df, mesa)
        \/ MesaTotal(df, m) = MesaTotal(df, mesa) /\ GroupIndex(df, m) < GroupIndex(df, mesa) })

\* df_ranking["Posição"] = df_ranking.index + 1: sort_values keeps the
\* labels reset_index gave, so the label is the group index.
Posicao(df, mesa) == GroupIndex(df, mesa) + 1

Ranking(df) ==
  [ n \in 1..Cardinality(MesasOf(df)) |->
      LET mesa == CHOOSE m \in MesasOf(df) : SortedPlace(df, m) = n
      IN  [ Posicao |-> Posicao(df, mesa), mesa |-> mesa, valor_total |-> MesaTotal(df, mesa) ] ]

\* The value process_all_files returns: none = the eight None of line 161.
NoneResult ==
  [ none |-> TRUE, df |-> <<>>, df_cad |-> <<>>, df_del |-> <<>>,
    geral |-> Geral(0), ranking |-> <<>> ]

ConsolidateEmptyFrames(todos_l, todas_c, todos_d) ==
  [ none |-> FALSE,
    df |-> LancFrame(todos_l),
    df_cad |-> CadFrame(todas_c),
    df_del |-> todos_d,
    geral |-> Geral(TotalValor(todos_l, LancFrame(todos_l))),
    ranking |-> Ranking(LancFrame(todos_l)) ]

Consolidate(todos_l, todas_c, todos_d) ==
  IF todos_l = <<>> /\ todas_c = <<>> /\ todos_d = <<>>
  THEN NoneResult
  ELSE [ none |-> FALSE,
         df |-> LancFrame(todos_l),
         df_cad |-> CadFrame(todas_c),
         df_del |-> todos_d,
         geral |-> Geral(TotalValor(todos_l, LancFrame(todos_l))),
         ranking |-> Ranking(LancFrame(todos_l)) ]

\* PROCESSED_DATA = {} (line 131)
EmptySlot == [ filled |-> FALSE, lancamentos |-> <<>>, mesas_cad |-> <<>>, itens_del |-> <<>> ]

\* Lines 141-158: the three lists after the loop over the files.
RECURSIVE ReadFiles(_)
ReadFiles(fs) ==
  IF fs = <<>> THEN NoEvents
  ELSE LET f    == Head(fs)
           rest == ReadFiles(Tail(fs))
           r    == process_har_file(f.content, f.name)
       IN  IF ~f.is_har \/ ~f.utf8 \/ r.raised THEN rest
           ELSE [ lanc |-> r.events.lanc \o rest.lanc, cad |-> r.events.cad \o rest.cad,
                  del |-> r.events.del \o rest.del ]

process_all_files(fs) ==
  Consolidate(ReadFiles(fs).lanc, ReadFiles(fs).cad, ReadFiles(fs).del)

\* Lines 396-400: what upload_file stores in PROCESSED_DATA.
StoredFrames(r) ==
  [ filled |-> TRUE, lancamentos |-> r.df, mesas_cad |-> r.df_cad, itens_del |-> r.df_del ]

\* ------------------------------------------------------------------------
\* Inputs of the model
\* ------------------------------------------------------------------------
Iso(t) == [ kind |-> "iso", ticks |-> t ]

Junk == [ kind |-> "junk", ticks |-> 0 ]

Entry(url, method, status, started, headers, post, body) ==
  [ request  |-> Some([ url |-> Some(url), method |-> Some(method),
                        headers |-> Some(headers), postData |-> Some(post) ]),
    response |-> Some([ status |-> Some(status), content |-> Some(body) ]),
    startedDateTime |-> Some(started) ]

\* "Hamburguer%20R%24%2025%2C00": Hamburguer at R$ 25,00
ProdHamburguer == << "Hamburguer", "%20", "R", "%24", "%20", "2", "5", "%2C", "0", "0" >>

\* "Agua": no price
ProdAgua == << "Agua" >>

\* "Suco+R%24+x": the text after R$ is no number
ProdSucoBad == << "Suco", "+", "R", "%24", "+", "x" >>

\* "Picanha+R%241.000%2C00": R$ 1.000,00
ProdPicanha == << "Picanha", "+", "R", "%24", "1", ".", "0", "0", "0", "%2C", "0", "0" >>

\* "Pao+R%24+10%2C00": R$ 10,00
ProdPao == << "Pao", "+", "R", "%24", "+", "1", "0", "%2C", "0", "0" >>

OrderUrl(prod, mesa, quant) ==
  Url("/lancar.php", << Param("nomeprod", prod), Param("mesa", << mesa >>), Param("quant", quant) >>)

ConnectUrl(mesa, id) == Url("/connect.php", << Param("mesa", mesa), Param("id", << id >>) >>)

DelUrl == Url("/inc/del_produtos.php", <<>>)

RefererHeader(mesa) ==
  << [ name |-> "Accept", value |-> Url("", <<>>) ],
     [ name |-> "Referer", value |-> Url("/mesa.php", << Param("mesa", << mesa >>) >>) ] >>

DeletePost(id) == << Param("delete", id) >>

HarEntries ==
  { \* an order, confirmed by a numeric response body
    Entry(OrderUrl(ProdHamburguer, "Mesa01", << "2" >>), "GET", 200, Iso(0), <<>>, <<>>,
          << " ", "1", "2", "3" >>),
    \* an order without price, non-numeric body, unparseable start time
    Entry(OrderUrl(ProdAgua, "Mesa02", << "1" >>), "GET", 200, Junk, <<>>, <<>>, << "ok" >>),
    \* an order whose price text is no number
    Entry(OrderUrl(ProdSucoBad, "Mesa01", << "1" >>), "GET", 200, Iso(1), <<>>, <<>>, <<>>),
    \* a URL matching both the order and the registration pattern
    Entry(Url("/connect.php", << Param("mesa", << "Mesa01" >>), Param("id", << "7" >>),
                                 Param("nomeprod", ProdPao), Param("mesa", << "Mesa03" >>),
                                 Param("quant", << "1", "2" >>) >>),
          "GET", 200, Iso(2), <<>>, <<>>, <<>>),
    \* a registration, answered 200
    Entry(ConnectUrl(<< "Mesa01", "%20" >>, "7"), "GET", 200, Iso(3), <<>>, <<>>, <<>>),
    \* a registration answered 500
    Entry(ConnectUrl(<< "Mesa02" >>, "8"), "GET", 500, Iso(3), <<>>, <<>>, <<>>),
    \* a URL matching both the registration pattern and the deletion path
    Entry(Url("/inc/del_produtos.php/connect.php",
              << Param("mesa", << "Mesa02" >>), Param("id", << "9" >>) >>),
          "POST", 200, Iso(4), RefererHeader("Mesa02"), DeletePost(<< "5" >>), <<>>),
    \* a deletion
    Entry(DelUrl, "post", 200, Iso(5), RefererHeader("Mesa02"), DeletePost(<< "1", "2", "3" >>), <<>>),
    \* the deletion path fetched with GET
    Entry(DelUrl, "GET", 200, Iso(5), <<>>, DeletePost(<< "1", "2", "3" >>), <<>>),
    \* the deletion path posted without a delete id
    Entry(DelUrl, "POST", 200, Iso(5), <<>>, << Param("foo", << "1" >>) >>, <<>>),
    \* an order URL whose response carries no status
    [ request  |-> Some([ url |-> Some(OrderUrl(ProdHamburguer, "Mesa01", << "1" >>)),
                          method |-> Some("GET"), headers |-> Absent, postData |-> Absent ]),
      response |-> Some([ status |-> Absent, content |-> Absent ]),
      startedDateTime |-> Some(Iso(6)) ],
    \* an entry without a request
    [ request  |-> Absent,
      response |-> Some([ status |-> Some(200), content |-> Absent ]),
      startedDateTime |-> Some(Iso(6)) ],
    \* an order URL with only the required keys
    [ request  |-> Some([ url |-> Some(OrderUrl(ProdPao, "Mesa02", << "3" >>)),
                          method |-> Absent, headers |-> Absent, postData |-> Absent ]),
      response |-> Some([ status |-> Some(404), content |-> Absent ]),
      startedDateTime |-> Absent ],
    \* a URL none of the patterns matches
    Entry(Url("/index.php", << Param("quant", << "1" >>), Param("mesa", << "Mesa01" >>) >>),
          "GET", 200, Iso(7), <<>>, <<>>, <<>>) }

HarDocuments ==
  { NotJson, NoLogKey } \cup { Document(es) : es \in SeqsUpTo(HarEntries, MaxEntries) }

\* An uploaded file: is_har = its name ends in ".har", utf8 = its bytes
\* decode as UTF-8, name = secure_filename(file.filename).
HarFile(name, es) == [ is_har |-> TRUE, utf8 |-> TRUE, name |-> name, content |-> Document(es) ]

Order(prod, mesa, quant, started) ==
  Entry(OrderUrl(prod, mesa, quant), "GET", 200, started, <<>>, <<>>, <<>>)

Registration(mesa, id, started) ==
  Entry(ConnectUrl(<< mesa >>, id), "GET", 200, started, <<>>, <<>>, <<>>)

BatchEntries ==
  { \* the same order captured at three instants: two within one second,
    \* the third in the next second
    Order(ProdHamburguer, "Mesa02", << "2" >>, Iso(0)),
    Order(ProdHamburguer, "Mesa02", << "2" >>, Iso(1)),
    Order(ProdHamburguer, "Mesa02", << "2" >>, Iso(TicksPerSec)),
    \* an order whose start time is no date
    Order(ProdPao, "Mesa01", << "1" >>, Junk),
    \* an order of R$ 1.000,00
    Order(ProdPicanha, "Mesa03", << "1" >>, Iso(0)),
    \* table Mesa01 registered twice, the later registration listed here first
    Registration("Mesa01", "7", Iso(5 * TicksPerSec)),
    Registration("Mesa01", "8", Iso(2 * TicksPerSec)),
    \* a registration whose start time is no date
    Registration("Mesa01", "9", Junk),
    \* another table
    Registration("Mesa02", "6", Iso(0)),
    \* a deletion
    Entry(DelUrl, "POST", 200, Iso(3), RefererHeader("Mesa02"), DeletePost(<< "7" >>), <<>>) }

BadFiles ==
  { [ is_har |-> FALSE, utf8 |-> TRUE, name |-> "notes.txt",
      content |-> Document(<< Order(ProdPao, "Mesa01", << "1" >>, Iso(0)) >>) ],
    [ is_har |-> TRUE, utf8 |-> FALSE, name |-> "latin1.har", content |-> NotJson ],
    [ is_har |-> TRUE, utf8 |-> TRUE, name |-> "broken.har", content |-> NotJson ],
    [ is_har |-> TRUE, utf8 |-> TRUE, name |-> "nolog.har", content |-> NoLogKey ] }

\* The callers of the service and the batches they upload.
Callers == { "c1", "c2" }

UploadBatches ==
  { \* nothing readable
    << [ is_har |-> TRUE, utf8 |-> TRUE, name |-> "broken.har", content |-> NotJson ] >>,
    \* orders only
    << HarFile("a.har", << Order(ProdHamburguer, "Mesa02", << "2" >>, Iso(0)),
                           Order(ProdPao, "Mesa01", << "1" >>, Junk) >>) >>,
    \* a registration only
    << HarFile("a.har", << Registration("Mesa01", "7", Iso(0)) >>) >>,
    \* an order, a registration and a deletion
    << HarFile("a.har", << Order(ProdPicanha, "Mesa03", << "1" >>, Iso(0)) >>),
       HarFile("b.har", << Registration("Mesa02", "6", Iso(0)),
                           Entry(DelUrl, "POST", 200, Iso(3), RefererHeader("Mesa02"),
                                 DeletePost(<< "7" >>), <<>>) >>) >> }

\* An answer: the page, and the frames it was built from.
NoAnswer == [ page |-> "none", from |-> EmptySlot ]

\* Uploads of at most two files holding at most MaxBatchEntries entries.
Batches ==
  { <<>> }
  \cup { << HarFile("a.har", SubSeq(p[1], 1, p[2])), HarFile("b.har", SubSeq(p[1], p[2] + 1, Len(p[1]))) >> :
          p \in { q \in SeqsUpTo(BatchEntries, MaxBatchEntries) \X (0..MaxBatchEntries) : q[2] <= Len(q[1]) } }
  \cup { << bad, HarFile("b.har", es) >> : bad \in BadFiles, es \in SeqsUpTo(BatchEntries, 1) }
  \cup { << HarFile("a.har", es), bad >> : bad \in BadFiles, es \in SeqsUpTo(BatchEntries, 1) }
  \cup { << b1, b2 >> : b1 \in BadFiles, b2 \in BadFiles }


\* ------------------------------------------------------------------------
\* State
\* ------------------------------------------------------------------------
VARIABLES
  file_content,           \* process_har_file: the document being read
  entry_i,                \* process_har_file: entries of it already visited
  lancamentos,            \* process_har_file: the order list
  mesas_cadastradas_raw,  \* process_har_file: the registration list
  itens_deletados,        \* process_har_file: the deletion list
  har_pc,                 \* process_har_file: "start", "loop", "returned" or "raised"
  files,                  \* process_all_files: the uploaded files
  file_i,                 \* process_all_files: files already visited
  todos_lancamentos,      \* process_all_files: orders of the files visited
  todas_mesas_cad,        \* process_all_files: registrations of the files visited
  todos_itens_deletados,  \* process_all_files: deletions of the files visited
  result,                 \* process_all_files: what it returned
  all_pc,                 \* upload_file: "files", "returned" or "answered"
  response,               \* upload_file: the page answered
  PROCESSED_DATA,         \* the process-wide slot (line 131)
  pc,                     \* per caller: where its export request stands
  answer,                 \* per caller: the answer to its last request
  own,                    \* per caller: the frames its last data-yielding upload produced
  latest                  \* the frames the last data-yielding upload of any caller produced

harVars == << file_content, entry_i, lancamentos, mesas_cadastradas_raw, itens_deletados, har_pc >>

allVars == << files, file_i, todos_lancamentos, todas_mesas_cad, todos_itens_deletados, result,
              all_pc, response >>

srvVars == << pc, answer, own, latest >>

vars == << harVars, allVars, PROCESSED_DATA, srvVars >>

HarFileName == "a.har"

\* ------------------------------------------------------------------------
\* process_har_file, one loop iteration at a time
\* ------------------------------------------------------------------------
HarIdle ==
  /\ file_content = NotJson
  /\ entry_i = 0
  /\ lancamentos = <<>>
  /\ mesas_cadastradas_raw = <<>>
  /\ itens_deletados = <<>>
  /\ har_pc = "idle"

AllIdle ==
  /\ files = <<>>
  /\ file_i = 0
  /\ todos_lancamentos = <<>>
  /\ todas_mesas_cad = <<>>
  /\ todos_itens_deletados = <<>>
  /\ result = NoneResult
  /\ all_pc = "idle"
  /\ response = "none"

ServerIdle ==
  /\ pc = [ c \in Callers |-> "idle" ]
  /\ answer = [ c \in Callers |-> NoAnswer ]
  /\ own = [ c \in Callers |-> EmptySlot ]
  /\ latest = EmptySlot

InitHar ==
  /\ file_content \in HarDocuments
  /\ entry_i = 0
  /\ lancamentos = <<>>
  /\ mesas_cadastradas_raw = <<>>
  /\ itens_deletados = <<>>
  /\ har_pc = "start"
  /\ AllIdle
  /\ PROCESSED_DATA = EmptySlot
  /\ ServerIdle

\* Lines 47-50: json.loads raises, three empty lists are returned.
HarParseFail ==
  /\ har_pc = "start"
  /\ ~file_content.json_ok
  /\ har_pc' = "returned"
  /\ UNCHANGED << file_content, entry_i, lancamentos, mesas_cadastradas_raw, itens_deletados >>
  /\ UNCHANGED << allVars, PROCESSED_DATA, srvVars >>

\* Line 56: the parsed value has no log.entries, the KeyError leaves the function.
HarNoLog ==
  /\ har_pc = "start"
  /\ file_content.json_ok /\ ~file_content.has_log
  /\ har_pc' = "raised"
  /\ UNCHANGED << file_content, entry_i, lancamentos, mesas_cadastradas_raw, itens_deletados >>
  /\ UNCHANGED << allVars, PROCESSED_DATA, srvVars >>

\* Lines 56-124: one entry.
HarEntryStep ==
  /\ har_pc \in { "start", "loop" }
  /\ file_content.json_ok /\ file_content.has_log
  /\ entry_i < Len(file_content.entries)
  /\ LET r == ProcessEntry(file_content.entries[entry_i + 1], HarFileName)
     IN  /\ lancamentos' = lancamentos \o r.lanc
         /\ mesas_cadastradas_raw' = mesas_cadastradas_raw \o r.cad
         /\ itens_deletados' = itens_deletados \o r.del
  /\ entry_i' = entry_i + 1
  /\ har_pc' = "loop"
  /\ UNCHANGED file_content
  /\ UNCHANGED << allVars, PROCESSED_DATA, srvVars >>

\* Line 125.
HarReturn ==
  /\ har_pc \in { "start", "loop" }
  /\ file_content.json_ok /\ file_content.has_log
  /\ entry_i = Len(file_content.entries)
  /\ har_pc' = "returned"
  /\ UNCHANGED << file_content, entry_i, lancamentos, mesas_cadastradas_raw, itens_deletados >>
  /\ UNCHANGED << allVars, PROCESSED_DATA, srvVars >>

NextHar == HarParseFail \/ HarNoLog \/ HarEntryStep \/ HarReturn

SpecHar == InitHar /\ [][NextHar]_vars


\* ------------------------------------------------------------------------
\* Claims about process_har_file (checked under SpecHar)
\* ------------------------------------------------------------------------
\* The entry visited by a step of the loop, and what the step added.
Visited == file_content.entries[entry_i']

AddedLanc == Len(lancamentos') - Len(lancamentos)

AddedCad == Len(mesas_cadastradas_raw') - Len(mesas_cadastradas_raw)

AddedDel == Len(itens_deletados') - Len(itens_deletados)

EntryUrl(e) == Val(Val(e.request).url)

EntryStatus(e) == Val(Val(e.response).status)

ListsUnchanged == UNCHANGED << lancamentos, mesas_cadastradas_raw, itens_deletados >>

\* C1: every record is classified into at most one of the three kinds, in
\* the priority order order > registration > deletion: a (readable) record
\* whose URL matches the order pattern yields exactly one order and nothing
\* else; a registration is produced only if the order pattern did not
\* match, the connect.php pattern matches and the status is exactly 200; a
\* deletion only if neither earlier classification was taken.
C1_ClassificationIsExclusive ==
  [][ entry_i' = entry_i + 1 =>
        /\ AddedLanc \in { 0, 1 } /\ AddedCad \in { 0, 1 } /\ AddedDel \in { 0, 1 }
        /\ AddedLanc + AddedCad + AddedDel <= 1
        /\ (~RaisesKeyError(Visited) /\ regex_url_matches(EntryUrl(Visited)))
             => (AddedLanc = 1 /\ AddedCad = 0 /\ AddedDel = 0)
        /\ AddedCad = 1 =>
             /\ ~RaisesKeyError(Visited)
             /\ ~regex_url_matches(EntryUrl(Visited))
             /\ regex_cadastro_matches(EntryUrl(Visited))
             /\ EntryStatus(Visited) = 200
        /\ AddedDel = 1 =>
             /\ ~RaisesKeyError(Visited)
             /\ ~regex_url_matches(EntryUrl(Visited))
             /\ ~(regex_cadastro_matches(EntryUrl(Visited)) /\ EntryStatus(Visited) = 200)
    ]_vars

\* A record matching both the order and the registration pattern, answered
\* 200, followed by one matching both the registration pattern and the
\* deletion path, have been classified.
C1_Witness ==
  /\ entry_i = 2
  /\ ~RaisesKeyError(file_content.entries[1])
  /\ regex_url_matches(EntryUrl(file_content.entries[1]))
  /\ regex_cadastro_matches(EntryUrl(file_content.entries[1]))
  /\ EntryStatus(file_content.entries[1]) = 200
  /\ ~RaisesKeyError(file_content.entries[2])
  /\ ~regex_url_matches(EntryUrl(file_content.entries[2]))
  /\ regex_cadastro_matches(EntryUrl(file_content.entries[2]))
  /\ PathHasDel(EntryUrl(file_content.entries[2]).path)
  /\ Len(lancamentos) = 1 /\ Len(mesas_cadastradas_raw) = 1 /\ itens_deletados = <<>>

\* A key of the entry that section 6 of the specification lists is absent.
MissingExpectedField(e) ==
  \/ RaisesKeyError(e)
  \/ ~Has(Val(e.request).method) \/ ~Has(Val(e.request).headers) \/ ~Has(Val(e.request).postData)
  \/ ~Has(Val(e.response).content)
  \/ ~Has(e.startedDateTime)

\* The order pattern matches and the text after R$ is no number.
PriceParseFails(e) ==
  /\ ~RaisesKeyError(e)
  /\ regex_url_matches(EntryUrl(e))
  /\ HasMarker(unquote_plus(regex_url_search(EntryUrl(e)).produto))
  /\ ~FloatOk(PriceText(unquote_plus(regex_url_search(EntryUrl(e)).produto)))

\* What the three patterns say of a readable entry.
Classifiable(e) ==
  \/ regex_url_matches(EntryUrl(e))
  \/ regex_cadastro_matches(EntryUrl(e)) /\ EntryStatus(e) = 200
  \/ /\ PathHasDel(EntryUrl(e).path)
     /\ UpperMethod(Get(Val(e.request).method, "")) = "POST"
     /\ regex_deletado_matches(Get(Val(e.request).postData, <<>>))

\* C7 as stated: a record that misses an expected field, or whose sub-parse
\* (the unit price after R$) fails, contributes no event to any list.
C7_FailedRecordIsSkipped ==
  [][ entry_i' = entry_i + 1 =>
        ((MissingExpectedField(Visited) \/ PriceParseFails(Visited)) => ListsUnchanged)
    ]_vars

\* C7 amended: a record lacking request, request.url, response or
\* response.status contributes no event; every other record is extracted,
\* in document order (events are only ever appended), absent optional keys
\* taking their defaults; a record whose unit price after R$ is no number
\* is not skipped: it yields an order with the raw nomeprod text as product
\* name and unit price 0.
C7_SkipOrFallback ==
  [][ entry_i' = entry_i + 1 =>
        /\ RaisesKeyError(Visited) => ListsUnchanged
        /\ SubSeq(lancamentos', 1, Len(lancamentos)) = lancamentos
        /\ SubSeq(mesas_cadastradas_raw', 1, Len(mesas_cadastradas_raw)) = mesas_cadastradas_raw
        /\ SubSeq(itens_deletados', 1, Len(itens_deletados)) = itens_deletados
        /\ ~RaisesKeyError(Visited) =>
             /\ Classifiable(Visited) <=> AddedLanc + AddedCad + AddedDel = 1
             /\ AddedLanc = 1 => lancamentos'[Len(lancamentos')].request = EntryUrl(Visited)
             /\ AddedCad = 1 =>
                  mesas_cadastradas_raw'[Len(mesas_cadastradas_raw')].request = EntryUrl(Visited)
             /\ AddedDel = 1 => itens_deletados'[Len(itens_deletados')].request = EntryUrl(Visited)
        /\ PriceParseFails(Visited) =>
             /\ AddedLanc = 1
             /\ lancamentos'[Len(lancamentos')].produto = regex_url_search(EntryUrl(Visited)).produto
             /\ lancamentos'[Len(lancamentos')].valor_unitario = 0
             /\ lancamentos'[Len(lancamentos')].valor_total = 0
    ]_vars

\* A priced order, then a record without status, then an order whose price
\* is no number: two orders are listed, the second under its raw name.
C7_Witness ==
  /\ entry_i = 3
  /\ ~RaisesKeyError(file_content.entries[1])
  /\ RaisesKeyError(file_content.entries[2])
  /\ PriceParseFails(file_content.entries[3])
  /\ Len(lancamentos) = 2
  /\ lancamentos[1].valor_unitario > 0
  /\ lancamentos[2].produto = ProdSucoBad
  /\ lancamentos[2].valor_unitario = 0


\* ------------------------------------------------------------------------
\* One upload request: process_all_files file by file, then upload_file's
\* answer
\* ------------------------------------------------------------------------
InitAll ==
  /\ files \in Batches
  /\ file_i = 0
  /\ todos_lancamentos = <<>>
  /\ todas_mesas_cad = <<>>
  /\ todos_itens_deletados = <<>>
  /\ result = NoneResult
  /\ all_pc = "files"
  /\ response = "none"
  /\ HarIdle
  /\ PROCESSED_DATA = EmptySlot
  /\ ServerIdle

AtFile == all_pc = "files" /\ file_i < Len(files)

ThisFile == files[file_i + 1]

NextFile ==
  /\ file_i' = file_i + 1
  /\ UNCHANGED << files, result, all_pc, response, harVars, PROCESSED_DATA, srvVars >>

ListsKept == UNCHANGED << todos_lancamentos, todas_mesas_cad, todos_itens_deletados >>

\* Line 143: the name does not end in ".har".
AllSkipFile == AtFile /\ ~ThisFile.is_har /\ ListsKept /\ NextFile

\* Lines 146, 153-155: decode raises UnicodeDecodeError.
AllDecodeError == AtFile /\ ThisFile.is_har /\ ~ThisFile.utf8 /\ ListsKept /\ NextFile

\* Lines 148, 156-158: process_har_file raises.
AllFileRaises ==
  /\ AtFile /\ ThisFile.is_har /\ ThisFile.utf8
  /\ process_har_file(ThisFile.content, ThisFile.name).raised
  /\ ListsKept /\ NextFile

\* Lines 148-151.
AllReadFile ==
  /\ AtFile /\ ThisFile.is_har /\ ThisFile.utf8
  /\ LET r == process_har_file(ThisFile.content, ThisFile.name)
     IN  /\ ~r.raised
         /\ todos_lancamentos' = todos_lancamentos \o r.events.lanc
         /\ todas_mesas_cad' = todas_mesas_cad \o r.events.cad
         /\ todos_itens_deletados' = todos_itens_deletados \o r.events.del
  /\ NextFile

\* Lines 160-257.
AllReturn ==
  /\ all_pc = "files" /\ file_i = Len(files)
  /\ result' = Consolidate(todos_lancamentos, todas_mesas_cad, todos_itens_deletados)
  /\ all_pc' = "returned"
  /\ UNCHANGED << files, file_i, response, harVars, PROCESSED_DATA, srvVars >>
  /\ ListsKept

\* Lines 391-392.
UploadError ==
  /\ all_pc = "returned" /\ result.none
  /\ response' = "error_page"
  /\ all_pc' = "answered"
  /\ UNCHANGED << files, file_i, result, harVars, PROCESSED_DATA, srvVars >>
  /\ ListsKept

\* Lines 396-410.
UploadStore ==
  /\ all_pc = "returned" /\ ~result.none
  /\ PROCESSED_DATA' = StoredFrames(result)
  /\ response' = "report"
  /\ all_pc' = "answered"
  /\ UNCHANGED << files, file_i, result, harVars, srvVars >>
  /\ ListsKept

NextAll ==
  \/ AllSkipFile \/ AllDecodeError \/ AllFileRaises \/ AllReadFile
  \/ AllReturn \/ UploadError \/ UploadStore

SpecAll == InitAll /\ [][NextAll]_vars


\* ------------------------------------------------------------------------
\* Claims about process_all_files (checked under SpecAll)
\* ------------------------------------------------------------------------
Returned == all_pc \in { "returned", "answered" } /\ ~result.none

\* The second-truncated civil instant of an extracted event; every text
\* that is no date counts as the same missing instant.
SecondOf(horario) ==
  IF horario.kind = "datetime"
  THEN << "at", (horario.ticks + BrasiliaOffsetSec * TicksPerSec) \div TicksPerSec >>
  ELSE << "NaT", 0 >>

SameEvent(a, b) ==
  /\ a.mesa = b.mesa /\ a.produto = b.produto /\ a.Qtde = b.Qtde /\ a.request = b.request
  /\ SecondOf(a.horario) = SecondOf(b.horario)

\* The extracted orders no earlier extracted order is the same event as.
FirstOfItsKind ==
  { i \in 1..Len(todos_lancamentos) :
      \A j \in 1..(i - 1) : ~SameEvent(todos_lancamentos[j], todos_lancamentos[i]) }

NthFirst(n) ==
  CHOOSE i \in FirstOfItsKind : Cardinality({ j \in FirstOfItsKind : j <= i }) = n

RowSecond(row) ==
  IF row.horario.nat THEN << "NaT", 0 >>
  ELSE << "at", (row.horario.ticks + BrasiliaOffsetSec * TicksPerSec) \div TicksPerSec >>

\* C2: after consolidation no two orders share (table id, product name,
\* quantity, source URL, second-truncated normalized instant); of each group
\* sharing that key exactly the first in concatenation order is kept, and
\* the kept orders keep their relative order.
C2_FirstOfEachKeyKept ==
  Returned =>
    /\ Len(result.df) = Cardinality(FirstOfItsKind)
    /\ \A n \in 1..Len(result.df) :
         LET ev == todos_lancamentos[NthFirst(n)]
             row == result.df[n]
         IN  /\ row.request = ev.request /\ row.mesa = ev.mesa /\ row.produto = ev.produto
             /\ row.Qtde = ev.Qtde /\ row.arquivo_origem = ev.arquivo_origem
             /\ row.horario = to_datetime(ev.horario)
             /\ row.No = n
    /\ \A m \in 1..Len(result.df), n \in 1..Len(result.df) :
         m < n =>
           ~( /\ result.df[m].mesa = result.df[n].mesa
              /\ result.df[m].produto = result.df[n].produto
              /\ result.df[m].Qtde = result.df[n].Qtde
              /\ result.df[m].request = result.df[n].request
              /\ RowSecond(result.df[m]) = RowSecond(result.df[n]) )

\* Two files each hold the same order, captured at two instants of the same
\* second: one order is listed, the first file's.
C2_Witness ==
  /\ Returned
  /\ Len(files) = 2
  /\ Len(todos_lancamentos) = 2
  /\ todos_lancamentos[1].arquivo_origem = "a.har"
  /\ todos_lancamentos[2].arquivo_origem = "b.har"
  /\ todos_lancamentos[1].horario # todos_lancamentos[2].horario
  /\ SameEvent(todos_lancamentos[1], todos_lancamentos[2])
  /\ Len(result.df) = 1
  /\ result.df[1].arquivo_origem = "a.har"

\* C3: the global total is the sum of quantity x unit price over the orders
\* that remain after deduplication; removed duplicates contribute nothing.
C3_TotalIsPostDedupSum ==
  Returned =>
    /\ result.geral.total_valor =
         SumSeq([ i \in 1..Len(todos_lancamentos) |->
                    IF i \in FirstOfItsKind
                    THEN todos_lancamentos[i].Qtde * todos_lancamentos[i].valor_unitario
                    ELSE 0 ])
    /\ result.geral.total_valor =
         SumSeq([ n \in 1..Len(result.df) |-> result.df[n].Qtde * result.df[n].valor_unitario ])

\* A priced duplicate was removed: the total is below the sum over the
\* extracted orders.
C3_Witness ==
  /\ Returned
  /\ Cardinality(FirstOfItsKind) < Len(todos_lancamentos)
  /\ result.geral.total_valor > 0
  /\ result.geral.total_valor < SumExtracted(todos_lancamentos)

\* C4 as stated: the ranking positions are a permutation of 1..K, K the
\* number of distinct tables, and a table with a strictly larger summed
\* total has the smaller position.
C4_PositionsFollowTotals ==
  Returned =>
    /\ Len(result.ranking) = Cardinality({ result.df[i].mesa : i \in 1..Len(result.df) })
    /\ { result.ranking[n].Posicao : n \in 1..Len(result.ranking) } = 1..Len(result.ranking)
    /\ \A a \in 1..Len(result.ranking), b \in 1..Len(result.ranking) :
         result.ranking[a].valor_total > result.ranking[b].valor_total
           => result.ranking[a].Posicao < result.ranking[b].Posicao

\* What a file contributes, said of its entries.
YieldsNothing(file) ==
  \/ ~file.is_har \/ ~file.utf8 \/ ~file.content.json_ok \/ ~file.content.has_log
  \/ \A i \in 1..Len(file.content.entries) :
       RaisesKeyError(file.content.entries[i]) \/ ~Classifiable(file.content.entries[i])

BatchIsEmpty(fs) == \A i \in 1..Len(fs) : YieldsNothing(fs[i])

EmptyBatch == BatchIsEmpty(files)

\* C6: a batch yielding no order, no registration and no deletion makes
\* process_all_files return the no-data value, with none of the tables
\* built, and upload_file answer the empty-state error page, not a report.
C6_EmptyBatchIsNoData ==
  /\ (all_pc \in { "returned", "answered" } /\ EmptyBatch) =>
       /\ result.none
       /\ result.df = <<>> /\ result.df_cad = <<>> /\ result.df_del = <<>>
       /\ result.ranking = <<>>
  /\ (all_pc = "answered" /\ EmptyBatch) =>
       /\ response = "error_page"
       /\ PROCESSED_DATA = EmptySlot

\* Two files, neither a readable HAR document, were answered.
C6_Witness ==
  /\ all_pc = "answered"
  /\ Len(files) = 2
  /\ EmptyBatch
  /\ \E i \in 1..2 : ~files[i].is_har /\ files[i].content.entries # <<>>
  /\ response = "error_page"

\* b is not earlier than a; a missing instant is later than every instant.
NotLater(a, b) ==
  \/ a.kind = "datetime" /\ b.kind = "datetime" /\ a.ticks <= b.ticks
  \/ b.kind # "datetime"

\* C8: the registration list holds exactly one registration per table id
\* extracted, and it is one with the earliest registration instant among
\* that table's registrations.
C8_EarliestRegistrationKept ==
  Returned =>
    /\ \A i \in 1..Len(todas_mesas_cad) :
         Cardinality({ n \in 1..Len(result.df_cad) :
                         result.df_cad[n].mesa = todas_mesas_cad[i].mesa }) = 1
    /\ \A n \in 1..Len(result.df_cad) :
         \E i \in 1..Len(todas_mesas_cad) :
           /\ todas_mesas_cad[i].mesa = result.df_cad[n].mesa
           /\ todas_mesas_cad[i].request = result.df_cad[n].request
           /\ todas_mesas_cad[i].arquivo_origem = result.df_cad[n].arquivo_origem
           /\ \A j \in 1..Len(todas_mesas_cad) :
                todas_mesas_cad[j].mesa = result.df_cad[n].mesa
                  => NotLater(todas_mesas_cad[i].horario_cadastro,
                              todas_mesas_cad[j].horario_cadastro)

\* A table registered late, then early, and a second table: two rows, the
\* first table's being the early registration.
C8_Witness ==
  /\ Returned
  /\ Len(todas_mesas_cad) = 3
  /\ todas_mesas_cad[1].mesa = todas_mesas_cad[2].mesa
  /\ todas_mesas_cad[3].mesa # todas_mesas_cad[1].mesa
  /\ todas_mesas_cad[1].horario_cadastro.kind = "datetime"
  /\ todas_mesas_cad[2].horario_cadastro.kind = "datetime"
  /\ todas_mesas_cad[2].horario_cadastro.ticks < todas_mesas_cad[1].horario_cadastro.ticks
  /\ Len(result.df_cad) = 2
  /\ \E n \in 1..2 : result.df_cad[n].request = todas_mesas_cad[2].request

\* C9 as stated: under the percentage-plus-offset variant a total of
\* 1000.00 gives a commission of 200.00 (money in centavos, the commission
\* in hundredths of a centavo).
C9_CommissionWithOffset ==
  (Returned /\ result.geral.total_valor = 100000) => result.geral.comissao = 2000000

\* C9 amended: the commission is the flat 6% of the total, the fee the flat
\* 4%; a total of 1000.00 gives a commission of 60.00.
C9_FlatCommission ==
  Returned =>
    /\ result.geral.comissao = 6 * result.geral.total_valor
    /\ result.geral.taxa = 4 * result.geral.total_valor
    /\ result.geral.total_valor = 100000 => result.geral.comissao = 600000

\* A batch whose total is R$ 1.000,00.
C9_Witness ==
  /\ Returned
  /\ result.geral.total_valor = 100000
  /\ result.geral.comissao = 600000


\* ------------------------------------------------------------------------
\* The service: upload_file and download_excel, called by several callers
\*
\* An upload computes on its own data and touches the slot in the single
\* assignment of line 396, so it is one step.  An export reads the slot at
\* lines 419, 422, 423 and 424: four steps, between which other requests
\* may run.
\* ------------------------------------------------------------------------
Init ==
  /\ PROCESSED_DATA = EmptySlot
  /\ ServerIdle
  /\ HarIdle
  /\ AllIdle

Answer(c, page, from) == answer' = [ answer EXCEPT ![c] = [ page |-> page, from |-> from ] ]

StoreAlways(slot, r) == StoredFrames(r)

\* Lines 391-400: the slot after an upload whose result is r.
SlotAfterUpload(slot, r) == IF r.none THEN slot ELSE StoredFrames(r)

\* The uploads of the model with what process_all_files returns for them;
\* yields = some entry of some readable file is an event.
UploadOutcomes ==
  { [ yields |-> ~BatchIsEmpty(fs), r |-> process_all_files(fs) ] : fs \in UploadBatches }

\* Lines 385-410: POST of a batch.  own and latest record the history: they
\* change when the batch uploaded holds an event.
upload_file(c) ==
  /\ pc[c] = "idle"
  /\ \E u \in UploadOutcomes :
       /\ PROCESSED_DATA' = SlotAfterUpload(PROCESSED_DATA, u.r)
       /\ IF u.r.none
          THEN Answer(c, "error_page", EmptySlot)
          ELSE Answer(c, "report", StoredFrames(u.r))
       /\ own' = IF u.yields THEN [ own EXCEPT ![c] = StoredFrames(u.r) ] ELSE own
       /\ latest' = IF u.yields THEN StoredFrames(u.r) ELSE latest
  /\ UNCHANGED << pc, harVars, allVars >>

\* Lines 419-420.
download_excel_no_data(c) ==
  /\ pc[c] = "idle"
  /\ ~PROCESSED_DATA.filled \/ PROCESSED_DATA.lancamentos = <<>>
  /\ Answer(c, "no_data", EmptySlot)
  /\ UNCHANGED << PROCESSED_DATA, pc, own, latest, harVars, allVars >>

\* Line 419, the test passing.
download_excel_check(c) ==
  /\ pc[c] = "idle"
  /\ PROCESSED_DATA.filled /\ PROCESSED_DATA.lancamentos # <<>>
  /\ pc' = [ pc EXCEPT ![c] = "read_lancamentos" ]
  /\ Answer(c, "pending", EmptySlot)
  /\ UNCHANGED << PROCESSED_DATA, own, latest, harVars, allVars >>

\* Line 422.
download_excel_read_lancamentos(c) ==
  /\ pc[c] = "read_lancamentos"
  /\ pc' = [ pc EXCEPT ![c] = "read_mesas_cad" ]
  /\ answer' = [ answer EXCEPT ![c].from.lancamentos = PROCESSED_DATA.lancamentos,
                               ![c].from.filled = TRUE ]
  /\ UNCHANGED << PROCESSED_DATA, own, latest, harVars, allVars >>

\* Line 423.
download_excel_read_mesas_cad(c) ==
  /\ pc[c] = "read_mesas_cad"
  /\ pc' = [ pc EXCEPT ![c] = "read_itens_del" ]
  /\ answer' = [ answer EXCEPT ![c].from.mesas_cad = PROCESSED_DATA.mesas_cad ]
  /\ UNCHANGED << PROCESSED_DATA, own, latest, harVars, allVars >>

\* Lines 424-436: the last read, generate_excel returning the workbook.
download_excel_send(c) ==
  /\ pc[c] = "read_itens_del"
  /\ pc' = [ pc EXCEPT ![c] = "idle" ]
  /\ answer' = [ answer EXCEPT ![c].from.itens_del = PROCESSED_DATA.itens_del,
                               ![c].page = "xlsx" ]
  /\ UNCHANGED << PROCESSED_DATA, own, latest, harVars, allVars >>

\* Lines 424-426, 369-371, 437-438: the last read, generate_excel returning
\* None because the writer raised.  Which frames the writer refuses is
\* decided outside this source, so both outcomes are possible.
download_excel_error(c) ==
  /\ pc[c] = "read_itens_del"
  /\ pc' = [ pc EXCEPT ![c] = "idle" ]
  /\ answer' = [ answer EXCEPT ![c].from.itens_del = PROCESSED_DATA.itens_del,
                               ![c].page = "error_500" ]
  /\ UNCHANGED << PROCESSED_DATA, own, latest, harVars, allVars >>

Next ==
  \E c \in Callers :
    \/ upload_file(c)
    \/ download_excel_no_data(c)
    \/ download_excel_check(c)
    \/ download_excel_read_lancamentos(c)
    \/ download_excel_read_mesas_cad(c)
    \/ download_excel_send(c)
    \/ download_excel_error(c)

Spec == Init /\ [][Next]_vars


\* ------------------------------------------------------------------------
\* Claims about the service (checked under Spec)
\* ------------------------------------------------------------------------
\* C5 as stated: for every interleaving of the requests of two callers, an
\* export a caller receives is built from the frames of that caller's own
\* most recent data-yielding upload, never from another caller's.
C5_ExportFromOwnUpload ==
  \A c \in Callers : answer[c].page = "xlsx" => answer[c].from = own[c]

TestOfLine419 ==
  \A c \in Callers :
    pc[c] = "idle" =>
      /\ ENABLED download_excel_no_data(c)
           <=> (~PROCESSED_DATA.filled \/ PROCESSED_DATA.lancamentos = <<>>)
      /\ ENABLED download_excel_check(c)
           <=> (PROCESSED_DATA.filled /\ PROCESSED_DATA.lancamentos # <<>>)

\* C11 as stated: download_excel answers "no data" exactly when the slot was
\* never filled or the stored batch has no order (a stored batch of
\* registrations or deletions only is refused at every export), and a
\* workbook is generated only from a stored batch with at least one order.
C11_NoDataExactlyWithoutOrders ==
  /\ TestOfLine419
  /\ \A c \in Callers :
       answer[c].page = "xlsx" => answer[c].from.lancamentos # <<>>

=============================================================================
